---- MODULE Spec2Model ----
(***************************************************************************)
(* Photo gallery front end (parthesian/mirror): the paginated photo        *)
(* collection of ImageService (src/js/imageService.js, final class body,   *)
(* lines 435-861) and the infinite-scroll driver of Gallery                *)
(* (src/js/gallery.js, final class body, lines 342-1170).                  *)
(*                                                                         *)
(* The program is single threaded.  An async method runs up to its first   *)
(* await inside the event that called it ("...Call" actions); the rest of  *)
(* the method runs when the awaited request settles ("...Response"         *)
(* actions).  Requests that are awaited at the same time may settle in     *)
(* any order.                                                              *)
(*                                                                         *)
(* Spec is the application (gallery, upload, service); ServiceSpec is      *)
(* ImageService alone under a client that calls its methods in any order.  *)
(* CacheSpec is the cache of ImagePreloader (src/js/imagePreloader.js)     *)
(* under outside calls and image events, PreloaderSpec adds one batch      *)
(* call, and RenderSpec is one render of the gallery: the preload it       *)
(* awaits and the cascade of reveal timers that follows.  GallerySpec is   *)
(* the application as its user drives it, NavigationSpec the service with  *)
(* a caller that walks the collection, CompressSpec one call of            *)
(* compressImage, and ThrottleSpec the throttled scroll listener with a    *)
(* clock.                                                                  *)
(***************************************************************************)
EXTENDS Integers, Sequences, FiniteSets, Bags, TLC

VARIABLES
    images,        \* ImageService.images: sequence of photos
    currentPage,   \* ImageService.currentPage
    hasMore,       \* ImageService.hasMore
    isLoading,     \* ImageService.isLoading
    apiBaseUrl,    \* TRUE iff window.CONFIG.API_BASE_URL is set
    inflight,      \* bag of the GET /photos requests awaiting their response
    nextRid,       \* number of requests (GET or POST) issued so far
    uploadState,   \* position of the one uploadPhoto call: idle, posting, refreshing
    uploadResult,  \* how the latest uploadPhoto call settled ("none": not yet)
    isAnimating,   \* Gallery.isAnimating
    animTimers,    \* pending "isAnimating = false" timers
    checkFirst,    \* how many of the pending check timers run out before the
                   \* pending "isAnimating = false" timer does
    checkTimers,   \* pending checkIfNeedsMoreContent timers
    renderJobs,    \* gallery renders awaiting the preloader, per kind
    galleryContainer, \* Gallery.galleryContainer: its children (skeletons,
                   \* photos, the empty state) and what the renders that await
                   \* the preloader will put in
    serverFull,    \* the server holds this many full pages ...
    serverTail,    \* ... followed by this many further photos (< limit)
    last,          \* the step taken last and what it settled (history)
    exhausted,     \* the response to a page request set hasMore to false and
                   \* fetchImages has not been called since (history)
    loadedImages,  \* ImagePreloader.loadedImages: url -> image, 0 when absent
    loadingPromises, \* ImagePreloader.loadingPromises: url -> promise, 0 when absent
    loads,         \* the Image loads started so far; load i backs promise i
    direct,        \* number of preloadImage and clearCache calls made from outside
    batch,         \* the one preloadBatch / preloadWithBatching /
                   \* preloadGalleryImages call and where it stands
    lastCall,      \* what the last preloadImage call returned (history)
    cascade,       \* the one render of the gallery: its photos, the reveal
                   \* timers pending and the positions revealed so far
    throttle       \* the throttled scroll listener: its inThrottle flag, the
                   \* time its reset timer is due, the clock, and what became
                   \* of the scroll events so far (history)

preloader == <<loadedImages, loadingPromises, loads, direct, batch, lastCall>>

vars == <<images, currentPage, hasMore, isLoading, apiBaseUrl, inflight,
          nextRid, uploadState, uploadResult, isAnimating, animTimers, checkFirst, checkTimers,
          renderJobs, serverFull, serverTail, last, exhausted, preloader,
          cascade, galleryContainer, throttle>>

service == <<images, currentPage, hasMore, isLoading>>
gallery == <<isAnimating, animTimers, checkFirst, checkTimers, renderJobs,
            galleryContainer>>
server  == <<apiBaseUrl, serverFull, serverTail>>

----------------------------------------------------------------------------
(* Bounds of the model *)

MaxRequests == 3      \* requests issued in one behaviour
MaxServerFull == 1    \* full pages the server may hold
MaxTimers == 1        \* timers of one kind pending at once
MaxUrls == 6          \* distinct thumbnail URLs
MaxDirect == 3        \* preloadImage and clearCache calls made from outside
MaxDirectUrls == 2    \* URLs those outside preloadImage calls name
MaxBatchSize == 2     \* explicit batchSize arguments of preloadWithBatching
MaxPriority == 2      \* explicit priority arguments of preloadGalleryImages

URLs == 1..MaxUrls

(* Program constants *)

minZoom == 2               \* Gallery.minZoom
maxZoom == 6               \* Gallery.maxZoom
limit == 54           \* ImageService.limit (page size)
remainingBatchSize == 4    \* preloadGalleryImages: batches of the remainder
scrollThrottleLimit == 200 \* bindEvents: this.throttle(..., 200), in ms

----------------------------------------------------------------------------
(* JSON values as the response parsing sees them.  Every value carries its *)
(* type tag t; an absent property reads as Undefined.                      *)

Undefined == [t |-> "undefined"]
Null == [t |-> "null"]
JBool(b) == [t |-> "bool", b |-> b]
JArray(s) == [t |-> "array", elems |-> s]
\* a string holding JSON text: ok says whether the text parses, v to what
JString(ok, v) == [t |-> "string", ok |-> ok, v |-> v]
JObject(photos, items, more, body) ==
    [t |-> "object", photos |-> photos, Items |-> items, hasMore |-> more,
     body |-> body]

\* x.f in JavaScript for a non-null x: only objects carry the properties
Prop(x, f) == IF x.t = "object" THEN x[f] ELSE Undefined
\* JavaScript truthiness of a value
Truthy(x) ==
    CASE x.t \in {"undefined", "null"} -> FALSE
      [] x.t = "bool" -> x.b
      [] OTHER -> TRUE
IsArray(x) == x.t = "array"

----------------------------------------------------------------------------
(* The remote API: photo g (1..ServerCount) is on page ((g-1) \div limit)+1 *)

ServerCount == serverFull * limit + serverTail

PageLen(p) ==
    IF p < 1 THEN 0
    ELSE IF p * limit <= ServerCount THEN limit
    ELSE IF (p - 1) * limit < ServerCount THEN ServerCount - (p - 1) * limit
    ELSE 0

\* the records of page p as the API documents them (photoId, no id)
ServerPage(p) ==
    [i \in 1..PageLen(p) |-> [photoId |-> (p - 1) * limit + i, id |-> 0]]

\* the hasMore property of the answer for page p: the documented answer
\* has none; an answer that carries one (flag) tells the truth
ServerHasMore(flag, p) ==
    IF flag THEN JBool(p * limit < ServerCount) ELSE Undefined

Shapes == {"photos", "array", "Items", "none", "null"}

\* the payload of page p in one of the shapes a server could answer with
Inner(shape, flag, p) ==
    CASE shape = "photos" ->
            JObject(JArray(ServerPage(p)), Undefined, ServerHasMore(flag, p), Undefined)
      [] shape = "array" -> JArray(ServerPage(p))
      [] shape = "Items" ->
            JObject(Undefined, JArray(ServerPage(p)), ServerHasMore(flag, p), Undefined)
      [] shape = "none" ->
            JObject(Undefined, Undefined, Undefined, Undefined)
      [] OTHER -> Null

\* the parsed response body: the payload itself, or a gateway envelope
\* whose body property is the payload as JSON text (or text that is no JSON)
Payload(shape, wrap, flag, p) ==
    CASE wrap = "plain" -> Inner(shape, flag, p)
      [] wrap = "body" ->
            JObject(Undefined, Undefined, Undefined,
                    JString(TRUE, Inner(shape, flag, p)))
      [] OTHER ->
            JObject(Undefined, Undefined, Undefined, JString(FALSE, Null))

\* what can come back for a GET: fetch() rejects (transport; the TypeError's
\* message mentions "fetch" in some browsers and not in others), a non-2xx
\* status (413 or another), a body that is no JSON, or a 2xx JSON body
\* (with or without an explicit hasMore)
Responses ==
    [net : {"transport"}, hasFetch : BOOLEAN, shape : {"none"},
     wrap : {"plain"}, flag : {FALSE}]
    \cup [net : {"status", "status413", "badjson"}, hasFetch : {FALSE}, shape : {"none"},
          wrap : {"plain"}, flag : {FALSE}]
    \cup [net : {"ok"}, hasFetch : {FALSE}, shape : {"photos"},
          wrap : {"plain", "body"}, flag : BOOLEAN]
    \cup [net : {"ok"}, hasFetch : {FALSE}, shape : Shapes \ {"photos"},
          wrap : {"plain"}, flag : {FALSE}]
    \cup [net : {"ok"}, hasFetch : {FALSE}, shape : {"Items"},
          wrap : {"body"}, flag : {FALSE}]
    \cup [net : {"ok"}, hasFetch : {FALSE}, shape : {"none"},
          wrap : {"badbody"}, flag : {FALSE}]

----------------------------------------------------------------------------
(* Response handling of ImageService *)

\* photo => ({ id: photo.photoId || photo.id || ..., ... })
\* a photo of the collection is modelled by its id alone
TransformPhoto(photo) ==
    IF photo.photoId # 0 THEN photo.photoId ELSE photo.id

MapPhotos(s) == [i \in DOMAIN s |-> TransformPhoto(s[i])]

\* an error: its name, whether its message includes 'fetch', and whether
\* its message includes '413' or 'too large'
NoError == [name |-> "none", hasFetch |-> FALSE, tooLarge |-> FALSE]
Err(name, hasFetch) == [name |-> name, hasFetch |-> hasFetch, tooLarge |-> FALSE]
\* new Error(`HTTP error! status: ${response.status}`) for status 413
HttpError413 == [name |-> "Error", hasFetch |-> FALSE, tooLarge |-> TRUE]

\* variant: the body string of an envelope is never unwrapped
ParseBodyNoUnwrap(data) == [err |-> NoError, parsedData |-> data]

\* JSON.parse(data.body) inside try/catch: a parse error becomes
\* throw new Error('Invalid API response format')
ParseBody(data) ==
    IF Truthy(Prop(data, "body")) /\ Prop(data, "body").t = "string"
    THEN IF data.body.ok
         THEN [err |-> NoError, parsedData |-> data.body.v]
         ELSE [err |-> Err("Error", FALSE), parsedData |-> Null]
    ELSE [err |-> NoError, parsedData |-> data]

\* the try block of fetchImages / loadMorePhotos from the await of fetch()
\* to the recognition of the payload: the error thrown, if any, else the
\* photos array found (found = FALSE: "Unexpected API response format")
ParseResponse(resp, p) ==
    LET none == [found |-> FALSE, photos |-> <<>>, more |-> Undefined] IN
    CASE resp.net = "transport" -> [err |-> Err("TypeError", resp.hasFetch)] @@ none
      [] resp.net = "status" -> [err |-> Err("Error", FALSE)] @@ none
      [] resp.net = "status413" -> [err |-> HttpError413] @@ none
      [] resp.net = "badjson" -> [err |-> Err("SyntaxError", FALSE)] @@ none
      [] OTHER ->
         LET data == Payload(resp.shape, resp.wrap, resp.flag, p) IN
         IF data.t = "null"
         THEN [err |-> Err("TypeError", FALSE)] @@ none   \* data.body of null
         ELSE LET b == ParseBody(data)
                  parsedData == b.parsedData
              IN IF b.err # NoError THEN [err |-> b.err] @@ none
                 ELSE IF Truthy(parsedData) /\ Truthy(Prop(parsedData, "photos"))
                         /\ IsArray(Prop(parsedData, "photos"))
                      THEN [err |-> NoError, found |-> TRUE,
                            photos |-> MapPhotos(parsedData.photos.elems),
                            more |-> Prop(parsedData, "hasMore")]
                      ELSE [err |-> NoError] @@ none

\* variant: the explicit flag of the response is ignored
NewHasMoreCountOnly(more, photos) == Len(photos) = limit

\* parsedData.hasMore !== undefined ? parsedData.hasMore : (length === limit)
NewHasMore(more, photos) ==
    IF more # Undefined THEN more.b ELSE Len(photos) = limit

\* images.findIndex(image => image.id === id)
RECURSIVE FindIndexFrom(_, _, _)
FindIndexFrom(s, id, i) ==
    IF i > Len(s) THEN -1
    ELSE IF s[i] = id THEN i - 1
    ELSE FindIndexFrom(s, id, i + 1)

IndexIn(s, id) == FindIndexFrom(s, id, 1)

getImageIndex(id) == IndexIn(images, id)

----------------------------------------------------------------------------
(* History *)

\* The step that last called or settled a service operation.
\* act: the action; page: the page requested or answered; outcome: the
\* branch taken; note: what was special about the response handled;
\* status, value: how the fetchImages / loadMorePhotos / uploadPhoto call
\* settled in this step, if one did ("pending" while it awaits a response)
Step(act, page, outcome, note, status, value) ==
    [act |-> act, page |-> page, outcome |-> outcome, note |-> note,
     status |-> status, value |-> value]

NoStep == Step("init", 0, "none", "none", "none", <<>>)

\* what kind of answer a settled request got, for the record in last:
\* "unparseable": the response text or the envelope's body string was no
\* JSON; "body": an object with a photos array, as JSON text in the body
\* field of an envelope; otherwise the shape of the payload ("photos",
\* "array", "Items", "object" for an object with none of these, "null");
\* "none": no 2xx answer at all
Note(resp) ==
    CASE resp.net = "badjson" -> "unparseable"
      [] resp.net = "ok" /\ resp.wrap = "badbody" -> "unparseable"
      [] resp.net = "ok" /\ resp.wrap = "body" /\ resp.shape = "photos" -> "body"
      [] resp.net = "ok" /\ resp.shape = "none" -> "object"
      [] resp.net = "ok" -> resp.shape
      [] OTHER -> "none"

RenderKinds == {"initial", "more"}

\* a GET /photos?page=..&limit=.. awaited by fetchImages ("fetch") or
\* loadMorePhotos ("more") on behalf of caller
Request(op, page, caller) == [op |-> op, page |-> page, caller |-> caller]

Issue(r) == inflight (+) SetToBag({r})
Settle(r) == inflight (-) SetToBag({r})
InFlight == BagToSet(inflight)

----------------------------------------------------------------------------
\* the children of the gallery container
Skeleton(index) == [kind |-> "skeleton", index |-> index, id |-> 0]
GalleryItem(id) == [kind |-> "photo", index |-> 0, id |-> id]
EmptyState      == [kind |-> "empty", index |-> 0, id |-> 0]

\* clearGallery(): innerHTML = ''
clearGallery(c) == [c EXCEPT !.children = <<>>]

\* showEmptyState()
showEmptyState(c) == [c EXCEPT !.children = Append(@, EmptyState)]

\* renderSkeletonGrid(count) / renderSkeletonGridForMore(count, startIndex)
\* at the start of a render of photos, which then awaits the preloader
renderSkeletonGrid(c, kind, photos, startIndex) ==
    [children |-> c.children \o [i \in 1..Len(photos) |-> Skeleton(startIndex + i - 1)],
     renders  |-> Append(c.renders, [kind |-> kind, photos |-> photos,
                                      startIndex |-> startIndex])]

\* the skeletons a cascade works on: every [data-skeleton-index] child, for
\* an append those with index >= startIndex
IsTarget(cell, job) ==
    /\ cell.kind = "skeleton"
    /\ job.kind = "more" => cell.index >= job.startIndex

\* render j goes on after its preload: the cascade replaces skeleton number
\* g of its list by photo number g (the timers of one cascade are taken to
\* fire with no other event in between, as the forEach of reduced motion
\* does)
replaceSkeletons(c, j) ==
    LET job == c.renders[j]
        rank(p) == Cardinality({q \in 1..p : IsTarget(c.children[q], job)})
    IN  [children |-> [p \in DOMAIN c.children |->
                          IF IsTarget(c.children[p], job) /\ rank(p) <= Len(job.photos)
                          THEN GalleryItem(job.photos[rank(p)])
                          ELSE c.children[p]],
         renders  |-> [i \in 1..(Len(c.renders) - 1) |->
                          IF i < j THEN c.renders[i] ELSE c.renders[i + 1]]]

\* An Image load is a record [url, state]; load i is the Image that backs
\* promise i, and a loaded image is named by the number of its load.
Wait     == [state |-> "wait", img |-> 0]     \* the item still awaits its promise
Failed   == [state |-> "null", img |-> 0]     \* null: the item's load failed
Rejected == [state |-> "rejected", img |-> 0] \* the item's promise rejected
Img(i)   == [state |-> "img", img |-> i]      \* the image of load i

NoCascade == [kind |-> "none", photos |-> <<>>, columns |-> 0,
              animate |-> FALSE, state |-> "none", timers |-> {},
              revealed |-> <<>>]

\* the throttled listener before any scroll event: now is the clock in ms,
\* due the time the pending reset timer was set for, lastRun the time of the
\* latest handleScroll, dropped whether the latest event was dropped
NoThrottle == [inThrottle |-> FALSE, timer |-> FALSE, due |-> 0, now |-> 0,
               ran |-> FALSE, lastRun |-> 0, dropped |-> FALSE]

NoCall == [url |-> 0, promise |-> 0, started |-> FALSE, cached |-> FALSE]

NoBatch == [kind |-> "none", size |-> 0, chunks |-> <<>>, k |-> 0,
            awaited |-> <<>>, done |-> <<>>, loadedCount |-> 0,
            progress |-> <<>>, results |-> <<>>, mine |-> {},
            status |-> "none"]

Init ==
    /\ images = <<>>
    /\ currentPage = 0
    /\ hasMore = TRUE
    /\ isLoading = FALSE
    /\ apiBaseUrl \in BOOLEAN
    /\ inflight = EmptyBag
    /\ nextRid = 0
    /\ uploadState = "idle"
    /\ uploadResult = "none"
    /\ isAnimating = FALSE
    /\ animTimers = 0
    /\ checkFirst = 0
    /\ checkTimers = 0
    /\ renderJobs = [k \in RenderKinds |-> 0]
    /\ galleryContainer = [children |-> <<>>, renders |-> <<>>]
    /\ serverFull \in 0..MaxServerFull
    /\ serverTail \in {0, 1}
    /\ last = NoStep
    /\ exhausted = FALSE
    /\ loadedImages = [u \in URLs |-> 0]
    /\ loadingPromises = [u \in URLs |-> 0]
    /\ loads = <<>>
    /\ direct = 0
    /\ batch = NoBatch
    /\ lastCall = NoCall
    /\ cascade = NoCascade
    /\ throttle = NoThrottle

----------------------------------------------------------------------------
(* ImageService.fetchImages *)

\* fetchImages up to its first await.  Its callers are Gallery.loadImages
\* ("gallery"), uploadPhoto after a successful POST ("upload") and any
\* other client of the service ("api").
FetchImagesStart(caller, act) ==
    IF ~apiBaseUrl
    THEN /\ images' = <<>>
         /\ currentPage' = 1
         /\ hasMore' = FALSE
         /\ isLoading' = FALSE
         /\ last' = Step(act, 1, "unconfigured", "none", "resolved", <<>>)
         /\ UNCHANGED <<inflight, nextRid>>
    ELSE /\ nextRid < MaxRequests
         /\ isLoading' = TRUE
         /\ currentPage' = 1
         /\ hasMore' = TRUE
         /\ inflight' = Issue(Request("fetch", 1, caller))
         /\ nextRid' = nextRid + 1
         /\ last' = Step(act, 1, "issued", "none", "pending", <<>>)
         /\ UNCHANGED images

\* Gallery.loadImages after fetchImages resolved without a request:
\* renderGallery([]) shows the empty state, then the post-load check is
\* scheduled
\* (Gallery.init, the photoUploaded listener, PhotoGalleryApp.refreshGallery)
FetchImagesCall ==
    /\ FetchImagesStart("gallery", "FetchImagesCall")
    /\ IF ~apiBaseUrl
       THEN /\ checkTimers < MaxTimers
            /\ checkTimers' = checkTimers + 1
            /\ galleryContainer' = showEmptyState(clearGallery(galleryContainer))
       ELSE /\ UNCHANGED checkTimers
            /\ galleryContainer' = clearGallery(galleryContainer)
    /\ exhausted' = FALSE
    /\ UNCHANGED <<preloader, cascade, throttle, uploadState, uploadResult, isAnimating, animTimers, checkFirst, renderJobs, server>>

\* a client of the service calls fetchImages itself
FetchImagesDirect ==
    /\ FetchImagesStart("api", "FetchImagesDirect")
    /\ exhausted' = FALSE
    /\ UNCHANGED <<preloader, cascade, throttle, uploadState, uploadResult, gallery, server>>

\* the catch block's test for "a CORS or network error"
IsNetworkError(err) == err.name = "TypeError" /\ err.hasFetch

\* variant: a payload without a photos array is thrown like a parse error
FetchOutcomeStrict(pr) ==
    IF pr.err = NoError
    THEN IF pr.found THEN "ok" ELSE "throw"
    ELSE IF IsNetworkError(pr.err) THEN "fallback" ELSE "throw"

\* the branch fetchImages takes for a parsed response
FetchOutcome(pr) ==
    IF pr.err = NoError
    THEN IF pr.found THEN "ok" ELSE "empty"
    ELSE IF IsNetworkError(pr.err) THEN "fallback" ELSE "throw"

\* variant: the flag is reset at the end of the try block only
IsLoadingAtExitTryOnly(outcome) == outcome = "throw"

\* this.isLoading when fetchImages / loadMorePhotos settles after its
\* request: reset at the end of the try block and at the head of the catch
\* block
IsLoadingAtExit(outcome) == FALSE

\* the error fetchImages throws from its catch block:
\* new Error('Failed to fetch images: ' + error.message)
FetchImagesError(err) ==
    [name |-> "Error", hasFetch |-> TRUE, tooLarge |-> err.tooLarge]

\* the catch block of uploadPhoto: which error it rejects with
UploadRejection(err) ==
    IF err.tooLarge THEN "tooLarge"
    ELSE IF err.name = "TypeError" /\ err.hasFetch THEN "network"
    ELSE "failed"

\* the rest of fetchImages once the request r settled with resp
FetchImagesResponse(r, resp) ==
    LET pr == ParseResponse(resp, r.page)
        outcome == FetchOutcome(pr)
        newImages == CASE outcome = "ok" -> pr.photos
                       [] outcome = "throw" -> images
                       [] OTHER -> <<>>
        newHasMore == CASE outcome = "ok" -> NewHasMore(pr.more, pr.photos)
                        [] outcome = "throw" -> hasMore
                        [] OTHER -> FALSE
        setFalse == outcome \in {"ok", "empty"} /\ ~newHasMore
        status == IF outcome = "throw" THEN "rejected" ELSE "resolved"
    IN
    /\ r \in InFlight
    /\ r.op = "fetch"
    /\ resp \in Responses
    /\ images' = newImages
    /\ last' = Step("FetchImagesResponse", r.page, outcome, Note(resp), status,
                    IF status = "resolved" THEN newImages ELSE <<>>)
    /\ CASE r.caller = "upload" /\ status = "resolved" ->
            \* uploadPhoto returns; Modal.handleUploadSubmit dispatches
            \* photoUploaded; Gallery.loadImages calls fetchImages again
            /\ nextRid < MaxRequests
            /\ isLoading' = TRUE
            /\ currentPage' = 1
            /\ hasMore' = TRUE
            /\ inflight' = Settle(r) (+) SetToBag({Request("fetch", 1, "gallery")})
            /\ nextRid' = nextRid + 1
            /\ uploadState' = "idle"
            /\ uploadResult' = "acknowledged"
            /\ exhausted' = FALSE
            /\ galleryContainer' = clearGallery(galleryContainer)
            /\ UNCHANGED <<checkTimers, renderJobs>>
         [] r.caller = "upload" /\ status = "rejected" ->
            \* uploadPhoto rejects in its catch block
            /\ isLoading' = IsLoadingAtExit(outcome)
            /\ hasMore' = newHasMore
            /\ inflight' = Settle(r)
            /\ uploadState' = "idle"
            /\ uploadResult' = UploadRejection(FetchImagesError(pr.err))
            /\ exhausted' = (exhausted \/ setFalse)
            /\ UNCHANGED <<currentPage, nextRid, checkTimers, renderJobs,
                           galleryContainer>>
         [] OTHER ->
            /\ isLoading' = IsLoadingAtExit(outcome)
            /\ hasMore' = newHasMore
            /\ inflight' = Settle(r)
            /\ exhausted' = (exhausted \/ setFalse)
            /\ IF r.caller = "gallery" /\ status = "resolved"
               THEN IF newImages = <<>>
                    THEN /\ checkTimers < MaxTimers
                         /\ checkTimers' = checkTimers + 1
                         /\ galleryContainer' = showEmptyState(galleryContainer)
                         /\ UNCHANGED renderJobs
                    ELSE /\ renderJobs["initial"] < MaxTimers
                         /\ renderJobs' = [renderJobs EXCEPT !["initial"] = @ + 1]
                         /\ galleryContainer' =
                               renderSkeletonGrid(galleryContainer, "initial", newImages, 0)
                         /\ UNCHANGED checkTimers
               ELSE UNCHANGED <<checkTimers, renderJobs, galleryContainer>>
            /\ UNCHANGED <<currentPage, nextRid, uploadState, uploadResult>>
    /\ UNCHANGED <<preloader, cascade, throttle, isAnimating, animTimers, checkFirst, server>>

----------------------------------------------------------------------------
(* ImageService.loadMorePhotos *)

\* variant: the guard forgets hasMore
LoadMoreGuardLoadingOnly == isLoading

\* the guard at the head of loadMorePhotos
LoadMoreGuard == isLoading \/ ~hasMore

\* loadMorePhotos up to its first await
LoadMorePhotosStart(caller, act) ==
    IF LoadMoreGuard
    THEN /\ last' = Step(act, 0, "noop", "none", "resolved", <<>>)
         /\ UNCHANGED <<service, inflight, nextRid>>
    ELSE IF ~apiBaseUrl
    THEN /\ isLoading' = FALSE
         /\ last' = Step(act, 0, "unconfigured", "none", "resolved", <<>>)
         /\ UNCHANGED <<images, currentPage, hasMore, inflight, nextRid>>
    ELSE /\ nextRid < MaxRequests
         /\ isLoading' = TRUE
         /\ currentPage' = currentPage + 1
         /\ inflight' = Issue(Request("more", currentPage + 1, caller))
         /\ nextRid' = nextRid + 1
         /\ last' = Step(act, currentPage + 1, "issued", "none", "pending", <<>>)
         /\ UNCHANGED <<images, hasMore>>

\* a client of the service calls loadMorePhotos without a test of its own
LoadMorePhotosCall ==
    /\ LoadMorePhotosStart("api", "LoadMorePhotosCall")
    /\ UNCHANGED <<preloader, cascade, throttle, uploadState, uploadResult, gallery, server, exhausted>>

\* the branch loadMorePhotos takes for a parsed response
LoadMoreOutcome(pr) ==
    IF pr.err = NoError
    THEN IF pr.found THEN "ok" ELSE "empty"
    ELSE "throw"

\* the rest of loadMorePhotos once the request r settled with resp
LoadMorePhotosResponse(r, resp) ==
    LET pr == ParseResponse(resp, r.page)
        outcome == LoadMoreOutcome(pr)
        newPhotos == IF outcome = "ok" THEN pr.photos ELSE <<>>
        newHasMore == CASE outcome = "ok" -> NewHasMore(pr.more, newPhotos)
                        [] outcome = "empty" -> FALSE
                        [] OTHER -> hasMore
    IN
    /\ r \in InFlight
    /\ r.op = "more"
    /\ resp \in Responses
    /\ images' = images \o newPhotos
    /\ hasMore' = newHasMore
    /\ isLoading' = IsLoadingAtExit(outcome)
    /\ currentPage' = IF outcome = "throw" THEN currentPage - 1 ELSE currentPage
    /\ inflight' = Settle(r)
    /\ exhausted' = (exhausted \/ (outcome # "throw" /\ ~newHasMore))
       \* Gallery.loadMoreImages: renderMoreImages(newImages) when not empty
    /\ IF r.caller = "gallery" /\ newPhotos # <<>>
       THEN /\ renderJobs["more"] < MaxTimers
            /\ renderJobs' = [renderJobs EXCEPT !["more"] = @ + 1]
            /\ galleryContainer' =
                  renderSkeletonGrid(galleryContainer, "more", newPhotos,
                                     Len(galleryContainer.children))
       ELSE UNCHANGED <<renderJobs, galleryContainer>>
    /\ last' = Step("LoadMorePhotosResponse", r.page, outcome, Note(resp),
                    IF outcome = "throw" THEN "rejected" ELSE "resolved",
                    newPhotos)
    /\ UNCHANGED <<preloader, cascade, throttle, nextRid, uploadState, uploadResult, isAnimating, animTimers, checkFirst, checkTimers, server>>

----------------------------------------------------------------------------
(* Gallery: infinite scroll, post-load check, rendering *)

\* Gallery.handleScroll; nearBottom is the scroll position's verdict
HandleScroll(nearBottom) ==
    /\ IF nearBottom /\ ~isLoading /\ hasMore
       THEN LoadMorePhotosStart("gallery", "HandleScroll")
       ELSE UNCHANGED <<service, inflight, nextRid, last>>
    /\ UNCHANGED <<preloader, cascade, uploadState, uploadResult, gallery, server, exhausted>>

\* a timer set by loadImages / loadMoreImages runs
\* Gallery.checkIfNeedsMoreContent; needsMoreContent is the layout's verdict
CheckIfNeedsMoreContent(needsMoreContent) ==
    /\ checkTimers > 0
    /\ checkTimers' = checkTimers - 1
    /\ IF ~(isLoading \/ isAnimating) /\ needsMoreContent /\ hasMore
       THEN LoadMorePhotosStart("gallery", "CheckIfNeedsMoreContent")
       ELSE UNCHANGED <<service, inflight, nextRid, last>>
    /\ checkFirst' = IF checkFirst > 0 THEN checkFirst - 1 ELSE 0
    /\ UNCHANGED <<preloader, cascade, throttle, uploadState, uploadResult, isAnimating, animTimers, renderJobs,
                   galleryContainer, server, exhausted>>

\* the preloader settles for a render: renderGallery goes on with
\* renderImagesWithCascade and loadImages sets the check timer;
\* renderMoreImages goes on with renderMoreImagesWithCascade (which sets
\* isAnimating unless reduced motion is preferred) and loadMoreImages sets
\* the check timer
RenderSettle(kind, prefersReducedMotion) ==
    /\ renderJobs[kind] > 0
    /\ renderJobs' = [renderJobs EXCEPT ![kind] = @ - 1]
    /\ \E j \in DOMAIN galleryContainer.renders :
          /\ galleryContainer.renders[j].kind = kind
          /\ galleryContainer' = replaceSkeletons(galleryContainer, j)
    /\ checkTimers < MaxTimers
    /\ checkTimers' = checkTimers + 1
    /\ IF kind = "more" /\ ~prefersReducedMotion
       THEN /\ animTimers < MaxTimers
            /\ isAnimating' = TRUE
            /\ animTimers' = animTimers + 1
            /\ checkFirst' = checkTimers + 1
       ELSE UNCHANGED <<isAnimating, animTimers, checkFirst>>
    /\ UNCHANGED <<preloader, cascade, throttle, service, inflight, nextRid, uploadState, uploadResult, server, last, exhausted>>

\* the timer of renderMoreImagesWithCascade: this.isAnimating = false
AnimationEnd ==
    /\ animTimers > 0
    /\ checkFirst = 0
    /\ animTimers' = animTimers - 1
    /\ isAnimating' = FALSE
    /\ UNCHANGED <<preloader, cascade, throttle, service, inflight, nextRid, uploadState, uploadResult, checkTimers,
                   checkFirst, renderJobs, galleryContainer, server, last, exhausted>>

----------------------------------------------------------------------------
(* ImageService.uploadPhoto *)

\* uploadPhoto up to the await of the POST
UploadPhotoCall ==
    /\ uploadState = "idle"
    /\ IF ~apiBaseUrl
       THEN /\ last' = Step("UploadPhotoCall", 0, "unconfigured", "none", "rejected", <<>>)
            /\ uploadResult' = UploadRejection(Err("Error", FALSE))
            /\ UNCHANGED uploadState
            /\ UNCHANGED nextRid
       ELSE /\ nextRid < MaxRequests
            /\ nextRid' = nextRid + 1
            /\ uploadState' = "posting"
            /\ uploadResult' = "none"
            /\ last' = Step("UploadPhotoCall", 0, "issued", "none", "pending", <<>>)
    /\ UNCHANGED <<preloader, cascade, throttle, service, inflight, gallery, server, exhausted>>

\* what can come back for the POST: a 2xx answer with a JSON payload, a 2xx
\* answer whose payload is no JSON, status 413, another non-2xx status, or
\* fetch() rejects (with a TypeError whose message mentions "fetch", or one
\* whose message does not)
PostResults == {"ok", "badjson", "413", "status", "transport", "transportOther"}

\* the error thrown in the try block of uploadPhoto for a failed POST
PostError(result) ==
    CASE result = "413" -> [name |-> "Error", hasFetch |-> FALSE, tooLarge |-> TRUE]
      [] result = "status" -> Err("Error", FALSE)
      [] result = "badjson" -> Err("SyntaxError", FALSE)
      [] result = "transport" -> Err("TypeError", TRUE)
      [] OTHER -> Err("TypeError", FALSE)

\* the POST settles: on success fetchImages is called and awaited
UploadPostResponse(result) ==
    /\ uploadState = "posting"
    /\ result \in PostResults
    /\ IF result = "ok"
       THEN /\ FetchImagesStart("upload", "UploadPostResponse")
            /\ uploadState' = "refreshing"
            /\ exhausted' = FALSE
            /\ UNCHANGED uploadResult
       ELSE /\ uploadState' = "idle"
            /\ uploadResult' = UploadRejection(PostError(result))
            /\ last' = Step("UploadPostResponse", 0, result, "none", "rejected", <<>>)
            /\ UNCHANGED <<service, inflight, nextRid, exhausted>>
    /\ UNCHANGED <<preloader, cascade, throttle, gallery, server>>

----------------------------------------------------------------------------
FetchImagesSettles ==
    \E r \in InFlight, resp \in Responses : FetchImagesResponse(r, resp)
LoadMorePhotosSettles ==
    \E r \in InFlight, resp \in Responses : LoadMorePhotosResponse(r, resp)
\* a scroll event outside the throttle window of the listener (the window
\* itself is followed by ScrollArrives)
ScrollEvent ==
    /\ \E nearBottom \in BOOLEAN : HandleScroll(nearBottom)
    /\ UNCHANGED throttle
CheckTimerFires ==
    \E needsMoreContent \in BOOLEAN : CheckIfNeedsMoreContent(needsMoreContent)
PreloadSettles ==
    \E kind \in RenderKinds, reduced \in BOOLEAN : RenderSettle(kind, reduced)
UploadPostSettles == \E result \in PostResults : UploadPostResponse(result)

Next ==
    \/ FetchImagesCall
    \/ FetchImagesSettles
    \/ LoadMorePhotosCall
    \/ LoadMorePhotosSettles
    \/ ScrollEvent
    \/ CheckTimerFires
    \/ PreloadSettles
    \/ AnimationEnd
    \/ UploadPhotoCall
    \/ UploadPostSettles

Spec == Init /\ [][Next]_vars

\* ImageService on its own: fetchImages and loadMorePhotos called in any
\* order by a client that tests nothing, their requests answered in any
\* order
ServiceNext ==
    \/ FetchImagesDirect
    \/ FetchImagesSettles
    \/ LoadMorePhotosCall
    \/ LoadMorePhotosSettles

ServiceSpec == Init /\ [][ServiceNext]_vars

----------------------------------------------------------------------------
(* Properties *)

\* requests issued by the step
Issued == BagToSet(inflight' (-) inflight)

\* C1: at most one page request (GET /photos) is in flight at a time, under
\* any interleaving of fetchImages, loadMorePhotos and uploadPhoto.
\* fetchImages sets isLoading without testing it, so this does not hold.
C1_AtMostOneInFlight == BagCardinality(inflight) <= 1

\* C2: against a server with stable pages of pairwise distinct ids, no two
\* photos of the collection share an id.  A loadMorePhotos response that
\* arrives around a fetchImages reset is appended all the same, so this
\* does not hold (see C1).
C2_UniqueIds == Cardinality({images[i] : i \in DOMAIN images}) = Len(images)

\* C3: loadMorePhotos called while isLoading is true or hasMore is false
\* returns an empty list, issues no page request, and leaves currentPage,
\* hasMore, isLoading and the collection unchanged.
C3_GuardedLoadMoreIsNoop ==
    [][((isLoading \/ ~hasMore) /\ LoadMorePhotosCall) =>
          /\ last'.status = "resolved"
          /\ last'.value = <<>>
          /\ inflight' = inflight
          /\ UNCHANGED <<currentPage, hasMore, isLoading, images>>]_vars

C3_Witness ==
    /\ last.act = "LoadMorePhotosCall"
    /\ last.outcome = "noop"
    /\ ~hasMore
    /\ ~isLoading
    /\ images # <<>>

\* C4: when a loadMorePhotos page request fails, currentPage after the
\* failed call equals currentPage before the call (the page requested less
\* one), the collection is unchanged, the call rejects, and the next
\* loadMorePhotos call requests the identical page number.  A fetchImages
\* reset between the call and its failure breaks this (see C1).
C4_FailedLoadMoreRollsBack ==
    [][(last'.act = "LoadMorePhotosResponse" /\ last'.outcome = "throw") =>
       \A r \in InFlight : \A resp \in Responses :
          LoadMorePhotosResponse(r, resp) =>
             /\ last'.status = "rejected"
             /\ images' = images
             /\ currentPage' = r.page - 1
             /\ currentPage' + 1 = r.page]_vars

\* C5: currentPage is an integer >= 1 in every reachable state, from
\* construction on.  The constructor sets 0, and a loadMorePhotos failure
\* after a fetchImages reset decrements below 1.
C5_CurrentPagePositive == currentPage \in Nat /\ currentPage >= 1

\* C6: once a page response has set hasMore to false, no scroll trigger,
\* post-load check or loadMorePhotos call issues a page request until
\* fetchImages is called again.  A response that was already awaited can
\* set hasMore back to true (see C1).
C6_NoRequestOnceExhausted ==
    [][exhausted => \A r \in Issued : r.op = "fetch"]_vars

\* C7: after a fetchImages call that received a valid page of n records,
\* currentPage is 1 and the collection is exactly those n photos in server
\* order, so getImageIndex of the k-th photo is k (from 0).  A
\* loadMorePhotos call or failure between the call and its response moves
\* currentPage (see C1).
C7_FetchReplacesCollection ==
    (last.act = "FetchImagesResponse" /\ last.outcome = "ok") =>
        /\ currentPage = 1
        /\ images = MapPhotos(ServerPage(last.page))
        /\ \A k \in 1..Len(images) : getImageIndex(images[k]) = k - 1

\* the response text is no JSON, or the envelope's body string is no JSON
Unparseable(resp) ==
    resp.net = "badjson" \/ (resp.net = "ok" /\ resp.wrap = "badbody")

\* C8: whenever fetchImages fails (transport failure, non-2xx status,
\* unparseable body), the collection is empty and hasMore is false
\* afterwards.  Only the transport failure recognised by the catch block
\* does that; the other failures leave the collection and hasMore = true.
C8_FailedFetchEmpties ==
    [][last'.act = "FetchImagesResponse" =>
       \A r \in InFlight : \A resp \in Responses :
          (FetchImagesResponse(r, resp)
           /\ (resp.net \in {"transport", "status"} \/ Unparseable(resp))) =>
             (images' = <<>> /\ ~hasMore')]_vars

----------------------------------------------------------------------------
(* ImagePreloader (src/js/imagePreloader.js): the two maps and the loads *)

Cache == [loaded |-> loadedImages, loading |-> loadingPromises, loads |-> loads]

\* preloadImage(url) on the cache c: the cache afterwards, the promise
\* returned (named by its load; a cached image comes in a resolved promise),
\* whether a new Image load was started
preloadImage(c, url) ==
    IF c.loaded[url] # 0
    THEN [cache |-> c, promise |-> c.loaded[url], started |-> FALSE, cached |-> TRUE]
    ELSE IF c.loading[url] # 0
    THEN [cache |-> c, promise |-> c.loading[url], started |-> FALSE, cached |-> FALSE]
    ELSE LET id == Len(c.loads) + 1
         IN  [cache |-> [loaded  |-> c.loaded,
                         loading |-> [c.loading EXCEPT ![url] = id],
                         loads   |-> Append(c.loads, [url |-> url, state |-> "pending"])],
              promise |-> id, started |-> TRUE, cached |-> FALSE]

\* variant: img.onload leaves the entry of loadingPromises in place
onloadKeepsPromise(c, i) ==
    [loaded  |-> [c.loaded EXCEPT ![c.loads[i].url] = i],
     loading |-> c.loading,
     loads   |-> [c.loads EXCEPT ![i].state = "loaded"]]

\* img.onload of load i
onload(c, i) ==
    [loaded  |-> [c.loaded EXCEPT ![c.loads[i].url] = i],
     loading |-> [c.loading EXCEPT ![c.loads[i].url] = 0],
     loads   |-> [c.loads EXCEPT ![i].state = "loaded"]]

\* img.onerror of load i
onerror(c, i) ==
    [loaded  |-> c.loaded,
     loading |-> [c.loading EXCEPT ![c.loads[i].url] = 0],
     loads   |-> [c.loads EXCEPT ![i].state = "failed"]]

\* clearCache()
clearCache(c) ==
    [loaded  |-> [u \in URLs |-> 0],
     loading |-> [u \in URLs |-> 0],
     loads   |-> c.loads]

SetCache(c) ==
    /\ loadedImages' = c.loaded
    /\ loadingPromises' = c.loading
    /\ loads' = c.loads

Pending(i) == loads[i].state = "pending"

\* the loads of url that have neither loaded nor failed yet
Outstanding(url) == {i \in DOMAIN loads : loads[i].url = url /\ Pending(i)}

----------------------------------------------------------------------------
(* preloadBatch, preloadWithBatching, preloadGalleryImages *)

Min(a, b) == IF a < b THEN a ELSE b

\* a chunk is one preloadBatch call: its urls, what its onProgress adds to
\* the count (base) and reports as total, and the position in the list of
\* the whole call of its first url (counted from 0)
Chunk(urls, base, total, first) ==
    [urls |-> urls, base |-> base, total |-> total, first |-> first]

\* preloadBatch(urls): nothing to do for an empty list
BatchChunks(urls) ==
    IF urls = <<>> THEN <<>> ELSE <<Chunk(urls, 0, Len(urls), 0)>>

\* variant: the whole list goes to one preloadBatch call
BatchingChunksWhole(urls, batchSize) ==
    IF urls = <<>> THEN <<>> ELSE <<Chunk(urls, 0, Len(urls), 0)>>

\* preloadWithBatching(urls, batchSize): the slices of the for loop
BatchingChunks(urls, batchSize) ==
    [n \in 1..((Len(urls) + batchSize - 1) \div batchSize) |->
        Chunk(SubSeq(urls, (n - 1) * batchSize + 1, Min(n * batchSize, Len(urls))),
              (n - 1) * batchSize, Len(urls), (n - 1) * batchSize)]

\* the thumbnail URLs of the photos, '' (0) filtered out
ThumbnailUrls(photos) == SelectSeq(photos, LAMBDA u : u # 0)

\* variant: no priority batch, the remainder is everything
GalleryChunksNoPriority(photos, priority) ==
    BatchingChunks(ThumbnailUrls(photos), remainingBatchSize)

\* preloadGalleryImages(photos, priority): the priority batch, then the rest
\* four at a time
GalleryChunks(photos, priority) ==
    LET urls == ThumbnailUrls(photos)
        priorityUrls == SubSeq(urls, 1, Min(priority, Len(urls)))
        remainingUrls == SubSeq(urls, Min(priority, Len(urls)) + 1, Len(urls))
        remaining == BatchingChunks(remainingUrls, remainingBatchSize)
    IN  (IF priorityUrls = <<>> THEN <<>>
         ELSE <<Chunk(priorityUrls, 0, Len(priorityUrls), 0)>>)
        \o [n \in DOMAIN remaining |->
               [remaining[n] EXCEPT !.first = @ + Len(priorityUrls)]]

\* urls.map(async url => await this.preloadImage(url) ...): every call of
\* preloadImage is made before the first await gives way
RECURSIVE preloadBatchStart(_, _, _, _)
preloadBatchStart(c, urls, awaited, started) ==
    IF urls = <<>>
    THEN [cache |-> c, awaited |-> awaited, started |-> started]
    ELSE LET r == preloadImage(c, Head(urls))
         IN  preloadBatchStart(r.cache, Tail(urls), Append(awaited, r.promise),
                               IF r.started THEN started \cup {r.promise}
                                            ELSE started)

\* the call enters chunk k
EnterChunk(b, c, k) ==
    LET s == preloadBatchStart(c, b.chunks[k].urls, <<>>, {})
    IN  [cache |-> s.cache,
         batch |-> [b EXCEPT !.k = k,
                             !.awaited = Append(@, s.awaited),
                             !.done = [j \in 1..Len(s.awaited) |-> Wait],
                             !.loadedCount = 0,
                             !.mine = @ \cup
                                {[load |-> s.awaited[j], chunk |-> k,
                                  pos |-> b.chunks[k].first + j - 1] :
                                    j \in {x \in DOMAIN s.awaited :
                                              s.awaited[x] \in s.started}}]]

\* the call starts: an empty list resolves at once
Begin(c, kind, size, chunks) ==
    LET b == [NoBatch EXCEPT !.kind = kind, !.size = size, !.chunks = chunks,
                             !.status = "running"]
    IN  IF chunks = <<>>
        THEN [cache |-> c, batch |-> [b EXCEPT !.status = "resolved"]]
        ELSE EnterChunk(b, c, 1)

Running == batch.status = "running"

\* the items of the current chunk whose promise has settled and whose
\* continuation has not run yet
ReadyItems ==
    IF Running
    THEN {j \in DOMAIN batch.done :
             batch.done[j] = Wait /\ ~Pending(batch.awaited[batch.k][j])}
    ELSE {}

ChunkSettled == Running /\ \A j \in DOMAIN batch.done : batch.done[j] # Wait

\* promise continuations run before the next event or outside call
MicrotaskPending == ReadyItems # {} \/ ChunkSettled

\* variant: only a loaded image is counted
NextLoadedCountLoadedOnly(count, out) ==
    IF out = Failed THEN count ELSE count + 1

\* loadedCount++, in the try and in the catch
NextLoadedCount(count, out) == count + 1

\* variant: a failed load rejects the item (no catch)
ItemOutcomeNoCatch(i) ==
    IF loads[i].state = "loaded" THEN Img(i) ELSE Rejected

\* what the item awaiting promise i returns: the image, or null from catch
ItemOutcome(i) ==
    IF loads[i].state = "loaded" THEN Img(i) ELSE Failed

----------------------------------------------------------------------------
(* Actions of the preloader *)

app == <<images, currentPage, hasMore, isLoading, apiBaseUrl, inflight,
         nextRid, uploadState, uploadResult, isAnimating, animTimers, checkFirst, checkTimers,
         renderJobs, serverFull, serverTail, last, exhausted, cascade, throttle,
         galleryContainer>>

DirectUrls == 1..MaxDirectUrls

\* outside calls are counted, and at most one of them comes before or
\* during the batch call
OutsideCall ==
    /\ ~MicrotaskPending
    /\ direct < MaxDirect
    /\ batch = NoBatch \/ direct = 0

\* preloadImage(url) called from outside
PreloadImageCall(url) ==
    /\ OutsideCall
    /\ LET r == preloadImage(Cache, url)
       IN  /\ SetCache(r.cache)
           /\ lastCall' = [url |-> url, promise |-> r.promise,
                           started |-> r.started, cached |-> r.cached]
    /\ direct' = direct + 1
    /\ UNCHANGED <<batch, app>>

\* clearCache() called from outside
ClearCacheCall ==
    /\ OutsideCall
    /\ SetCache(clearCache(Cache))
    /\ direct' = direct + 1
    /\ UNCHANGED <<batch, lastCall, app>>

\* the load event of Image i
ImgOnload(i) ==
    /\ ~MicrotaskPending
    /\ Pending(i)
    /\ SetCache(onload(Cache, i))
    /\ UNCHANGED <<direct, batch, lastCall, app>>

\* the error event of Image i
ImgOnerror(i) ==
    /\ ~MicrotaskPending
    /\ Pending(i)
    /\ SetCache(onerror(Cache, i))
    /\ UNCHANGED <<direct, batch, lastCall, app>>

UrlLists == {[i \in 1..n |-> i] : n \in 0..MaxUrls} \cup {<<1, 1>>, <<1, 2, 1>>}
PhotoLists == UrlLists \cup {<<0, 1, 2>>, <<0>>}
BatchSizes == 1..MaxBatchSize
Priorities == 0..MaxPriority

StartCall(kind, size, chunks) ==
    /\ batch = NoBatch
    /\ direct <= 1
    /\ LET s == Begin(Cache, kind, size, chunks)
       IN  /\ SetCache(s.cache)
           /\ batch' = s.batch
    /\ UNCHANGED <<direct, lastCall, app>>

\* preloadBatch(urls, onProgress) called
PreloadBatchCall == \E urls \in UrlLists : StartCall("batch", 0, BatchChunks(urls))

\* preloadWithBatching(urls, batchSize, onProgress) called
PreloadWithBatchingCall ==
    \E urls \in UrlLists : \E batchSize \in BatchSizes :
        StartCall("batching", batchSize, BatchingChunks(urls, batchSize))

\* preloadGalleryImages(photos, priority, onProgress) called
PreloadGalleryImagesCall ==
    \E photos \in PhotoLists : \E priority \in Priorities :
        StartCall("gallery", priority, GalleryChunks(photos, priority))

\* the continuation of one item of the current preloadBatch: count, report,
\* return the image or null
BatchItemContinues ==
    /\ ReadyItems # {}
    /\ LET j == CHOOSE x \in ReadyItems : \A y \in ReadyItems : x <= y
           out == ItemOutcome(batch.awaited[batch.k][j])
           ch == batch.chunks[batch.k]
       IN  batch' = [batch EXCEPT
                        !.done[j] = out,
                        !.loadedCount = NextLoadedCount(@, out),
                        !.progress = Append(@, <<ch.base + NextLoadedCount(batch.loadedCount, out),
                                                 ch.total>>),
                        !.status = IF out = Rejected THEN "rejected" ELSE @]
    /\ UNCHANGED <<loadedImages, loadingPromises, loads, direct, lastCall, app>>

\* Promise.all of the current preloadBatch resolves: its images are kept,
\* and the call goes on to its next preloadBatch or resolves
BatchSettles ==
    /\ ChunkSettled
    /\ LET b == [batch EXCEPT !.results = @ \o SelectSeq(batch.done, LAMBDA d : d # Failed)]
       IN  IF batch.k < Len(batch.chunks)
           THEN LET s == EnterChunk(b, Cache, batch.k + 1)
                IN  /\ SetCache(s.cache)
                    /\ batch' = s.batch
           ELSE /\ batch' = [b EXCEPT !.status = "resolved"]
                /\ UNCHANGED <<loadedImages, loadingPromises, loads>>
    /\ UNCHANGED <<direct, lastCall, app>>

PreloaderInit == Init /\ apiBaseUrl /\ serverFull = 0 /\ serverTail = 0

DirectCall == \E url \in DirectUrls : PreloadImageCall(url)
ImageLoads == \E i \in DOMAIN loads : ImgOnload(i)
ImageFails == \E i \in DOMAIN loads : ImgOnerror(i)

\* the cache alone: outside calls and image events
CacheNext == DirectCall \/ ClearCacheCall \/ ImageLoads \/ ImageFails
CacheSpec == PreloaderInit /\ [][CacheNext]_vars

\* one batch call among outside calls and image events
PreloaderNext ==
    \/ DirectCall
    \/ ClearCacheCall
    \/ ImageLoads
    \/ ImageFails
    \/ PreloadBatchCall
    \/ PreloadWithBatchingCall
    \/ PreloadGalleryImagesCall
    \/ BatchItemContinues
    \/ BatchSettles
PreloaderSpec == PreloaderInit /\ [][PreloaderNext]_vars

----------------------------------------------------------------------------
(* Properties of the preloader *)

\* C12: a preloadImage(url) call made while an earlier load of the same URL
\* is still outstanding starts no new Image load and returns the promise of
\* that load.
C12_ConcurrentCallsShareOneLoad ==
    [][\A url \in DirectUrls :
          (PreloadImageCall(url) /\ Outstanding(url) # {}) =>
             /\ loads' = loads
             /\ lastCall'.promise \in Outstanding(url)]_vars

\* C13: when the load of a URL fails, the URL is afterwards in neither map,
\* the promise of the load is rejected, and preloadImage(url) called next
\* starts a new Image load.
C13_FailedLoadNotCached ==
    [][\A i \in DOMAIN loads :
          ImgOnerror(i) =>
             LET url == loads[i].url
                 after == [loaded |-> loadedImages', loading |-> loadingPromises',
                           loads |-> loads']
             IN  /\ loadedImages'[url] = 0
                 /\ loadingPromises'[url] = 0
                 /\ loads'[i].state = "failed"
                 /\ preloadImage(after, url).started]_vars

\* C14: no URL is at once in loadedImages and in loadingPromises, whatever
\* the interleaving of preloadImage, load and error events and clearCache.
C14_LoadedAndLoadingDisjoint ==
    \A url \in URLs : ~(loadedImages[url] # 0 /\ loadingPromises[url] # 0)

\* an image was cached by a load that clearCache had forgotten, while the
\* load started after clearCache is still outstanding
C14_Witness ==
    \E url \in URLs : loadedImages[url] # 0 /\ Outstanding(url) # {}

\* the promises awaited by the one preloadBatch call, in the order of urls
BatchAwaited == IF batch.awaited = <<>> THEN <<>> ELSE batch.awaited[1]

\* the images of the loads in a that loaded, in the order of a
LoadedHandles(a) ==
    LET imgs == [j \in DOMAIN a |-> Img(a[j])]
    IN  SelectSeq(imgs, LAMBDA h : loads[h.img].state = "loaded")

\* C15: preloadBatch(urls) never rejects; it resolves only after every load
\* it awaits has settled, with exactly the images of the URLs that loaded,
\* whichever of the loads fail.
C15_BatchResolvesWithLoaded ==
    batch.kind = "batch" =>
       /\ batch.status # "rejected"
       /\ batch.status = "resolved" =>
             /\ \A j \in DOMAIN BatchAwaited : ~Pending(BatchAwaited[j])
             /\ batch.results = LoadedHandles(BatchAwaited)

\* five URLs, one of them failed: four images
C15_Witness ==
    /\ batch.kind = "batch"
    /\ batch.status = "resolved"
    /\ Len(BatchAwaited) = 5
    /\ Cardinality({j \in DOMAIN BatchAwaited :
                       loads[BatchAwaited[j]].state = "failed"}) = 1
    /\ Len(batch.results) = 4

\* C16: during one preloadBatch over n URLs onProgress is called once after
\* each settlement, loaded or failed, with 1, 2, ... in that order as first
\* argument and n as second, n times in all, in whatever order the loads
\* settle.
C16_ProgressCountsEverySettlement ==
    batch.kind = "batch" =>
       LET n == IF batch.chunks = <<>> THEN 0 ELSE Len(batch.chunks[1].urls)
       IN  /\ batch.progress = [i \in 1..Len(batch.progress) |-> <<i, n>>]
           /\ ~MicrotaskPending =>
                 Len(batch.progress) =
                    Cardinality({j \in DOMAIN BatchAwaited : ~Pending(BatchAwaited[j])})
           /\ batch.status = "resolved" => Len(batch.progress) = n

\* the second of three loads failed first and was reported as 1 of 3
C16_Witness ==
    /\ batch.kind = "batch"
    /\ Len(BatchAwaited) = 3
    /\ batch.done[1] = Wait
    /\ batch.done[2] = Failed
    /\ batch.progress = <<<<1, 3>>>>

\* the loads the batch call started itself and that have not settled
InFlightOfCall == {m \in batch.mine : Pending(m.load)}

\* every load awaited by chunk n of the call has settled
ChunkHasSettled(n) ==
    \A j \in DOMAIN batch.awaited[n] : ~Pending(batch.awaited[n][j])

\* C17: in preloadWithBatching(urls, batchSize) a load of a later chunk is
\* started only when every load of the chunks before it has settled, and the
\* call never has more than batchSize loads in flight.
C17_ChunksOneAfterAnother ==
    batch.kind = "batching" =>
       /\ \A m \in batch.mine : \A n \in 1..(m.chunk - 1) : ChunkHasSettled(n)
       /\ Cardinality(InFlightOfCall) <= batch.size

\* the second chunk of two loads is in flight, the first chunk has one
\* failed load
C17_Witness ==
    /\ batch.kind = "batching"
    /\ batch.size = 2
    /\ batch.k = 2
    /\ Cardinality(InFlightOfCall) = 2
    /\ \E j \in DOMAIN batch.awaited[1] : loads[batch.awaited[1][j]].state = "failed"

\* C18: in preloadGalleryImages(photos, priority) the load of a thumbnail at
\* position >= priority is started only when every load of the thumbnails
\* before position priority has settled, and at most remainingBatchSize (4)
\* loads of thumbnails at positions >= priority are in flight at once.
\* Positions count the photos that have a thumbnail URL.
C18_PriorityThenRemainder ==
    batch.kind = "gallery" =>
       LET priority == batch.size
       IN  /\ \A m \in batch.mine :
                 m.pos >= priority =>
                    \A n \in 1..batch.k : \A j \in DOMAIN batch.awaited[n] :
                       batch.chunks[n].first + j - 1 < priority =>
                          ~Pending(batch.awaited[n][j])
           /\ Cardinality({m \in InFlightOfCall : m.pos >= priority})
                 <= remainingBatchSize

\* one priority thumbnail settled, four of the five others in flight
C18_Witness ==
    /\ batch.kind = "gallery"
    /\ batch.size = 1
    /\ Len(batch.chunks) = 3
    /\ batch.k = 2
    /\ Cardinality({m \in InFlightOfCall : m.pos >= 1}) = remainingBatchSize

----------------------------------------------------------------------------
(* Gallery.renderGallery / renderMoreImages and the cascade of reveals *)
(* (window wider than 768 px: the column count is the zoom level)      *)

Zooms == minZoom..maxZoom

\* calculatePriorityImages(): two rows worth
calculatePriorityImages(currentZoom) == currentZoom * 2

\* the delay between rows and between the items of a row
RowDelay(kind) == IF kind = "initial" THEN 150 ELSE 100
ColDelay(kind) == IF kind = "initial" THEN 50 ELSE 30

\* itemDelay of the image at globalIndex g (from 0): groupImagesByRows puts
\* it in row g \div columns at column g % columns
ItemDelay(kind, columns, g) ==
    (g \div columns) * RowDelay(kind) + (g % columns) * ColDelay(kind)

\* the setTimeout calls of the cascade over n images
RevealTimers(kind, columns, n) ==
    {[pos |-> g, delay |-> ItemDelay(kind, columns, g)] : g \in 0..(n - 1)}

\* the timer that fires first: the shortest delay, and of equal delays the
\* one set first
NextTimer(timers) ==
    CHOOSE t \in timers :
       \A u \in timers : t.delay < u.delay \/ (t.delay = u.delay /\ t.pos <= u.pos)

\* forEach over the images: all replaced in one go, in order
AllAtOnce(n) == [i \in 1..n |-> i - 1]

\* variant: the render does not wait for the preloader
PreloadAwaitedNot == batch.status # "none"

\* await this.imagePreloader.preloadGalleryImages(...) has returned
PreloadAwaited == batch.status = "resolved"

\* renderGallery(images) (kind initial) or renderMoreImages(images) (kind
\* more) up to the await of preloadGalleryImages
RenderCall(kind) ==
    /\ cascade = NoCascade
    /\ batch = NoBatch
    /\ \E photos \in PhotoLists : \E currentZoom \in Zooms :
          IF photos = <<>>
          THEN /\ cascade' = [NoCascade EXCEPT !.kind = kind, !.state = "empty"]
               /\ UNCHANGED <<loadedImages, loadingPromises, loads, batch>>
          ELSE LET priority == IF kind = "initial"
                               THEN calculatePriorityImages(currentZoom)
                               ELSE Len(photos)
                   s == Begin(Cache, "gallery", priority, GalleryChunks(photos, priority))
               IN  /\ SetCache(s.cache)
                   /\ batch' = s.batch
                   /\ cascade' = [NoCascade EXCEPT !.kind = kind, !.photos = photos,
                                                   !.state = "preloading"]
    /\ UNCHANGED <<direct, lastCall, images, currentPage, hasMore, isLoading,
                   apiBaseUrl, inflight, nextRid, uploadState, uploadResult, isAnimating,
                   animTimers, checkFirst, checkTimers, renderJobs, galleryContainer, throttle,
                   serverFull, serverTail,
                   last, exhausted>>

\* after the await: renderImagesWithCascade / renderMoreImagesWithCascade
\* set the reveal timers (or replace every skeleton at once when reduced
\* motion is preferred); a rejected preload falls back to rendering at once
RenderContinues ==
    /\ cascade.state = "preloading"
    /\ PreloadAwaited \/ batch.status = "rejected"
    /\ \E columns \in Zooms : \E prefersReducedMotion \in BOOLEAN :
          LET n == Len(cascade.photos)
          IN  IF batch.status = "rejected" \/ prefersReducedMotion
              THEN /\ cascade' = [cascade EXCEPT !.columns = columns,
                                                 !.state = "done",
                                                 !.revealed = AllAtOnce(n)]
                   /\ UNCHANGED <<isAnimating, animTimers>>
              ELSE /\ cascade' = [cascade EXCEPT !.columns = columns,
                                                 !.animate = TRUE,
                                                 !.state = "revealing",
                                                 !.timers = RevealTimers(cascade.kind, columns, n)]
                   /\ IF cascade.kind = "more"
                      THEN /\ isAnimating' = TRUE
                           /\ animTimers' = animTimers + 1
                      ELSE UNCHANGED <<isAnimating, animTimers>>
    /\ UNCHANGED <<preloader, images, currentPage, hasMore, isLoading,
                   apiBaseUrl, inflight, nextRid, uploadState, uploadResult, checkTimers,
                   checkFirst, renderJobs, galleryContainer, throttle, serverFull,
                   serverTail, last, exhausted>>

\* a reveal timer fires: replaceSkeletonWithImage(skeleton, image, true)
RevealTimerFires ==
    /\ cascade.timers # {}
    /\ LET t == NextTimer(cascade.timers)
       IN  cascade' = [cascade EXCEPT !.timers = @ \ {t},
                                      !.revealed = Append(@, t.pos),
                                      !.state = IF cascade.timers = {t}
                                                THEN "done" ELSE @]
    /\ UNCHANGED <<preloader, images, currentPage, hasMore, isLoading,
                   apiBaseUrl, inflight, nextRid, uploadState, uploadResult, isAnimating,
                   animTimers, checkFirst, checkTimers, renderJobs, galleryContainer, throttle,
                   serverFull, serverTail,
                   last, exhausted>>

\* the last timer of renderMoreImagesWithCascade, set past every reveal
CascadeEnds ==
    /\ cascade.state = "done"
    /\ AnimationEnd

RenderInitial == RenderCall("initial")
RenderMore == RenderCall("more")

\* one render of the gallery with the image events of its preload
RenderNext ==
    \/ RenderInitial
    \/ RenderMore
    \/ ImageLoads
    \/ ImageFails
    \/ BatchItemContinues
    \/ BatchSettles
    \/ RenderContinues
    \/ RevealTimerFires
    \/ CascadeEnds
RenderSpec == PreloaderInit /\ [][RenderNext]_vars

\* C19: with animation, on the initial render and on append, for every
\* column count 2..6, the reveals of a batch come in row-major order: the
\* item at position i is revealed before the item at position j whenever
\* i < j.
C19_RevealRowMajor ==
    (cascade.animate /\ cascade.columns \in Zooms) =>
       \A a, b \in DOMAIN cascade.revealed :
          a < b => cascade.revealed[a] < cascade.revealed[b]

\* the order in which the timers of a cascade fire
RECURSIVE TimerOrder(_)
TimerOrder(timers) ==
    IF timers = {} THEN <<>>
    ELSE LET t == NextTimer(timers)
         IN  <<t.pos>> \o TimerOrder(timers \ {t})

\* the reveal order that kind, column count and number of photos fix
RevealOrder ==
    IF cascade.animate
    THEN TimerOrder(RevealTimers(cascade.kind, cascade.columns, Len(cascade.photos)))
    ELSE AllAtOnce(Len(cascade.photos))

\* C20: no item of a batch is revealed before every thumbnail load of the
\* batch has settled, loaded or failed, and the order of the reveals is the
\* one fixed by the cascade, whatever the order in which the loads completed.
C20_RevealAfterBatchSettled ==
    cascade.revealed # <<>> =>
       /\ Len(batch.awaited) = Len(batch.chunks)
       /\ \A n \in 1..Len(batch.chunks) : ChunkHasSettled(n)
       /\ \A i \in DOMAIN loads : ~Pending(i)
       /\ cascade.revealed = SubSeq(RevealOrder, 1, Len(cascade.revealed))

\* the reveal has begun after a preload in two batches, one load of which
\* failed
C20_Witness ==
    /\ cascade.state = "revealing"
    /\ cascade.revealed # <<>>
    /\ Len(batch.chunks) = 2
    /\ \E i \in DOMAIN loads : loads[i].state = "failed"
    /\ \E i \in DOMAIN loads : loads[i].state = "loaded"

----------------------------------------------------------------------------
(* Properties of the gallery and of the service, continued *)

\* C21: when the check that follows a page load finds the content too short
\* to fill the viewport while hasMore is true and no page is being loaded,
\* it requests another page, after the initial load and after each append,
\* with animation or with reduced motion (no scroll event is needed).
C21_ShortPageRequestsMore ==
    [][(CheckIfNeedsMoreContent(TRUE) /\ hasMore /\ ~isLoading /\ apiBaseUrl) =>
          nextRid' = nextRid + 1]_vars

\* the application as its user drives it: loadMorePhotos is called by the
\* gallery only (scroll, post-load check)
GalleryNext ==
    \/ FetchImagesCall
    \/ FetchImagesSettles
    \/ LoadMorePhotosSettles
    \/ ScrollEvent
    \/ CheckTimerFires
    \/ PreloadSettles
    \/ AnimationEnd
    \/ UploadPhotoCall
    \/ UploadPostSettles
GallerySpec == Init /\ [][GalleryNext]_vars

\* the ids of the photos the grid shows, in display order
Shown ==
    LET photos == SelectSeq(galleryContainer.children, LAMBDA c : c.kind = "photo")
    IN  [i \in DOMAIN photos |-> photos[i].id]

\* C22: once no request is awaited and every render has revealed its
\* photos, the grid shows exactly the photos of the collection, in the
\* order of the collection, after any interleaving of initial loads,
\* refreshes after upload and appends.
C22_GridShowsCollection ==
    (InFlight = {} /\ uploadState = "idle" /\ galleryContainer.renders = <<>>) =>
       Shown = images

----------------------------------------------------------------------------
(* ImageService.getNextImage / getPreviousImage *)

\* a returned photo, or null
Found(photo) == <<photo>>
NotFound == <<>>

\* variant: no wrap at the end of the collection
getNextImageNoWrap(currentId) ==
    LET currentIndex == getImageIndex(currentId)
    IN  IF currentIndex = -1 \/ currentIndex + 1 >= Len(images) THEN NotFound
        ELSE Found(images[currentIndex + 2])

\* getNextImage(currentId); images[i] of the source is images[i + 1] here
getNextImage(currentId) ==
    LET currentIndex == getImageIndex(currentId)
        nextIndex == (currentIndex + 1) % Len(images)
    IN  IF currentIndex = -1 THEN NotFound
        ELSE Found(images[nextIndex + 1])

\* getPreviousImage(currentId)
getPreviousImage(currentId) ==
    LET currentIndex == getImageIndex(currentId)
        prevIndex == IF currentIndex = 0 THEN Len(images) - 1 ELSE currentIndex - 1
    IN  IF currentIndex = -1 THEN NotFound
        ELSE Found(images[prevIndex + 1])

\* the ids a caller asks about: the first two and the last two photos of
\* the collection, and an id no photo has
CurrentIds ==
    {images[k] : k \in {1, 2, Len(images) - 1, Len(images)} \cap DOMAIN images}
       \cup {ServerCount + 1}

\* the modal asks for the neighbour of the photo it shows; the step records
\* the id asked about (as page) and the answer
GetNextImageCall ==
    /\ \E currentId \in CurrentIds :
          last' = Step("getNextImage", currentId, "returned", "none", "resolved",
                       getNextImage(currentId))
    /\ UNCHANGED <<service, inflight, nextRid, uploadState, uploadResult, gallery, server,
                   exhausted, preloader, cascade, throttle>>

GetPreviousImageCall ==
    /\ \E currentId \in CurrentIds :
          last' = Step("getPreviousImage", currentId, "returned", "none", "resolved",
                       getPreviousImage(currentId))
    /\ UNCHANGED <<service, inflight, nextRid, uploadState, uploadResult, gallery, server,
                   exhausted, preloader, cascade, throttle>>

\* the service with a client that also walks the collection
NavigationNext ==
    \/ FetchImagesDirect
    \/ FetchImagesSettles
    \/ LoadMorePhotosCall
    \/ LoadMorePhotosSettles
    \/ GetNextImageCall
    \/ GetPreviousImageCall
NavigationSpec == Init /\ [][NavigationNext]_vars

DistinctIds == \A i, j \in DOMAIN images : images[i] = images[j] => i = j

\* C23: in a collection of n >= 1 photos with distinct ids, getNextImage of
\* the photo at index k returns the photo at index (k+1) mod n and
\* getPreviousImage the photo at index (k-1) mod n; for an id that is not in
\* the collection (the empty collection included) both return null.
C23_NeighboursWrap ==
    (last.act \in {"getNextImage", "getPreviousImage"} /\ DistinctIds) =>
       LET n == Len(images)
           step == IF last.act = "getNextImage" THEN 1 ELSE n - 1
       IN  IF \E k \in 0..(n - 1) : images[k + 1] = last.page
           THEN \A k \in 0..(n - 1) :
                   images[k + 1] = last.page =>
                      last.value = <<images[((k + step) % n) + 1]>>
           ELSE last.value = <<>>

\* the neighbour before the first photo of several is the last one
C23_Witness ==
    /\ last.act = "getPreviousImage"
    /\ Len(images) > limit
    /\ DistinctIds
    /\ last.page = images[1]
    /\ last.value = <<images[Len(images)]>>

----------------------------------------------------------------------------
(* uploadPhoto: how the call settles *)

\* the step in which the uploadPhoto call settles
UploadSettles == uploadState \in {"posting", "refreshing"} /\ uploadState' = "idle"

\* C24: uploadPhoto rejects with the payload-too-large error exactly when
\* the POST answers 413, rejects with the network error when the POST fails
\* at transport level, and resolves with the acknowledgement only after the
\* fetchImages it called on a successful POST.
C24_UploadErrorKinds ==
    [][UploadSettles =>
          /\ (uploadResult' = "tooLarge") <=>
                (uploadState = "posting" /\ last'.outcome = "413")
          /\ (uploadState = "posting" /\ last'.outcome \in {"transport", "transportOther"})
                => uploadResult' = "network"
          /\ uploadResult' = "acknowledged" =>
                (uploadState = "refreshing" /\ last'.act = "FetchImagesResponse")]_vars

\* C29: uploadPhoto resolves with the acknowledgement only if the POST and
\* the refresh by fetchImages both succeed; when the POST succeeds and the
\* refresh throws, uploadPhoto rejects with the upload-failure error and the
\* acknowledgement is not returned.
C29_RefreshFailureFailsUpload ==
    [][UploadSettles =>
          /\ uploadResult' = "acknowledged" =>
                (uploadState = "refreshing" /\ last'.status = "resolved")
          /\ (uploadState = "refreshing" /\ last'.status = "rejected") =>
                uploadResult' = "failed"]_vars

----------------------------------------------------------------------------
(* ImageService.compressImage *)

maxWidth == 2560             \* compressImage: default of maxWidth
maxHeight == 1440            \* compressImage: default of maxHeight
compressThreshold == 2097152 \* 2 * 1024 * 1024: smaller files are kept as they are

DimStep == 97        \* distance between the image dimensions tried
MaxDimSteps == 40    \* the largest dimension tried is MaxDimSteps * DimStep
MaxSizeOffset == 1   \* file sizes tried: the threshold +- 0..MaxSizeOffset

Dimensions == {k * DimStep : k \in 1..MaxDimSteps}
FileSizes == {compressThreshold + d : d \in (0 - MaxSizeOffset)..MaxSizeOffset}

\* canvas.width = x for the double x that stands for num / den: the value is
\* truncated to an integer; a product W * (m / W) computed in doubles may
\* fall just below the integer it stands for (lost), which truncates to one
\* less
ToUnsignedLong(num, den, lost) ==
    IF num % den = 0 /\ lost /\ num > 0 THEN (num \div den) - 1 ELSE num \div den

\* variant: scaled by the larger of the two ratios
NewDimensionsByMax(width, height, lost) ==
    IF width > maxWidth \/ height > maxHeight
    THEN LET byWidth == maxWidth * height >= maxHeight * width
             num == IF byWidth THEN maxWidth ELSE maxHeight
             den == IF byWidth THEN width ELSE height
         IN  [width |-> ToUnsignedLong(width * num, den, lost),
              height |-> ToUnsignedLong(height * num, den, lost)]
    ELSE [width |-> width, height |-> height]

\* img.onload: "Calculate new dimensions" and "Set canvas dimensions";
\* ratio = Math.min(maxWidth / width, maxHeight / height) is num / den
NewDimensions(width, height, lost) ==
    IF width > maxWidth \/ height > maxHeight
    THEN LET byWidth == maxWidth * height <= maxHeight * width
             num == IF byWidth THEN maxWidth ELSE maxHeight
             den == IF byWidth THEN width ELSE height
         IN  [width |-> ToUnsignedLong(width * num, den, lost),
              height |-> ToUnsignedLong(height * num, den, lost)]
    ELSE [width |-> width, height |-> height]

\* compressImage(file): the file itself, a new file of the canvas's
\* dimensions, or a rejection (canvas.toBlob gives null for a canvas
\* without pixels)
compressImage(file, lost) ==
    IF ~file.isImage \/ file.size < compressThreshold
    THEN [outcome |-> "unchanged", width |-> file.width, height |-> file.height]
    ELSE LET canvas == NewDimensions(file.width, file.height, lost) IN
         IF canvas.width = 0 \/ canvas.height = 0
         THEN [outcome |-> "rejected", width |-> 0, height |-> 0]
         ELSE [outcome |-> "compressed", width |-> canvas.width,
               height |-> canvas.height]

Files == [isImage : BOOLEAN, size : FileSizes, width : Dimensions, height : Dimensions]

\* the call of compressImage of one upload; the step records the file (as
\* note) and the dimensions of the result
CompressImageCall ==
    /\ last = NoStep
    /\ \E file \in Files, lost \in BOOLEAN :
          LET result == compressImage(file, lost) IN
          last' = Step("compressImage", 0, result.outcome, file, "resolved",
                       <<result.width, result.height>>)
    /\ UNCHANGED <<service, inflight, nextRid, uploadState, uploadResult, gallery,
                   server, exhausted, preloader, cascade, throttle>>

CompressNext == CompressImageCall
CompressSpec == Init /\ [][CompressNext]_vars

\* C25: for an image file over the 2 MiB threshold with dimensions W x H,
\* compressImage produces an image of width <= 2560 and height <= 1440 whose
\* aspect ratio is that of the file up to the rounding of each dimension.
C25_CompressedFitsBox ==
    (last.act = "compressImage" /\ last.note.isImage
        /\ last.note.size >= compressThreshold) =>
       /\ last.outcome # "unchanged"
       /\ last.outcome = "compressed" =>
             LET W == last.note.width
                 H == last.note.height
                 w == last.value[1]
                 h == last.value[2]
             IN  /\ w <= maxWidth
                 /\ h <= maxHeight
                 /\ (W <= maxWidth /\ H <= maxHeight) => (w = W /\ h = H)
                 /\ 0 - H <= w * H - h * W
                 /\ w * H - h * W <= W

\* a file wider and higher than the box was scaled down by its height
C25_Witness ==
    /\ last.act = "compressImage"
    /\ last.outcome = "compressed"
    /\ last.note.size > compressThreshold
    /\ last.note.width > maxWidth
    /\ last.note.height > maxHeight
    /\ last.value[2] = maxHeight
    /\ last.value[1] < maxWidth

----------------------------------------------------------------------------
(* Requests after a failure *)

\* the steps taken by the user of the page: a load or refresh, a scroll,
\* the submission of the upload form
UserAction == FetchImagesCall \/ ScrollEvent \/ UploadPhotoCall

\* C26: after a failed fetchImages, loadMorePhotos or uploadPhoto the program
\* issues no request on its own: when the latest operation to settle has
\* failed, a request is issued only by a step of the user (an upload already
\* in progress going on to its next request apart).
C26_NoRequestOnItsOwnAfterFailure ==
    [][(last.status = "rejected" /\ nextRid' > nextRid) =>
          (UserAction \/ uploadState # "idle")]_vars

----------------------------------------------------------------------------
(* The collection and the server's pages *)

RECURSIVE Pages(_)
\* the server's pages 1..n one after the other, as photos of the collection
Pages(n) == IF n <= 0 THEN <<>> ELSE Pages(n - 1) \o MapPhotos(ServerPage(n))

\* C27: whenever no page request is in flight after a fetchImages or
\* loadMorePhotos has settled, the collection is the server's pages
\* 1..currentPage in order, none skipped and none twice.
C27_CollectionIsPagesSoFar ==
    (InFlight = {} /\ last.act \in {"FetchImagesResponse", "LoadMorePhotosResponse"})
       => images = Pages(currentPage)

\* C28: on every exit path of fetchImages and loadMorePhotos that follows
\* the setting of isLoading (success, API URL not configured, non-2xx
\* status, unparseable body, transport failure, unexpected payload shape)
\* isLoading is false when the call settles.
C28_NotLoadingWhenSettled ==
    (last.act \in {"FetchImagesResponse", "LoadMorePhotosResponse"}
        \/ last.outcome = "unconfigured") => ~isLoading

\* a loadMorePhotos has failed and the guard is open again
C28_Witness ==
    /\ last.act = "LoadMorePhotosResponse"
    /\ last.status = "rejected"
    /\ ~isLoading
    /\ hasMore

----------------------------------------------------------------------------
(* Gallery.throttle around handleScroll *)

TickMs == 50       \* the clock advances in steps of TickMs
MaxNow == 1000     \* the clock stops at MaxNow

\* variant: the reset timer is set with no delay
TimerDueAtOnce(now) == now

\* setTimeout(() => inThrottle = false, limit): the time the timer is set for
TimerDue(now) == now + scrollThrottleLimit

\* the function throttle returns, called for a scroll event: handleScroll
\* runs and the window opens, or the event is dropped
ScrollArrives(nearBottom) ==
    IF ~throttle.inThrottle
    THEN /\ HandleScroll(nearBottom)
         /\ throttle' = [throttle EXCEPT !.inThrottle = TRUE, !.timer = TRUE,
                                         !.due = TimerDue(throttle.now),
                                         !.ran = TRUE, !.lastRun = throttle.now,
                                         !.dropped = FALSE]
    ELSE /\ throttle' = [throttle EXCEPT !.dropped = TRUE]
         /\ UNCHANGED <<service, inflight, nextRid, last, preloader, cascade,
                        uploadState, uploadResult, gallery, server, exhausted>>

\* the reset timer runs, no earlier than the time it was set for
ThrottleTimerFires ==
    /\ throttle.timer
    /\ throttle.now >= throttle.due
    /\ throttle' = [throttle EXCEPT !.inThrottle = FALSE, !.timer = FALSE]
    /\ UNCHANGED <<service, inflight, nextRid, last, preloader, cascade,
                   uploadState, uploadResult, gallery, server, exhausted>>

\* time passes
Tick ==
    /\ throttle.now + TickMs <= MaxNow
    /\ throttle' = [throttle EXCEPT !.now = @ + TickMs]
    /\ UNCHANGED <<service, inflight, nextRid, last, preloader, cascade,
                   uploadState, uploadResult, gallery, server, exhausted>>

ScrollListener == \E nearBottom \in BOOLEAN : ScrollArrives(nearBottom)

\* the page being scrolled while its requests are answered
ThrottleNext ==
    \/ ScrollListener
    \/ ThrottleTimerFires
    \/ Tick
    \/ LoadMorePhotosSettles
ThrottleSpec == Init /\ [][ThrottleNext]_vars

\* handleScroll runs in this step
HandleScrollRuns ==
    throttle'.ran /\ (~throttle.ran \/ throttle'.lastRun # throttle.lastRun)

\* C30: the scroll handler is throttled on the leading edge: handleScroll
\* runs at most once per 200 ms window; a scroll event inside the window is
\* dropped and nothing is set up to run it later (the reset timer runs no
\* handleScroll), so handleScroll runs only in the step of a scroll event
\* that arrives outside the window.
C30_LeadingEdgeThrottle ==
    [][/\ HandleScrollRuns =>
            /\ ScrollListener
            /\ ~throttle.inThrottle
            /\ throttle'.now = throttle.now
            /\ throttle.ran => throttle'.lastRun - throttle.lastRun >= scrollThrottleLimit
       /\ (throttle.inThrottle /\ throttle'.dropped /\ ~throttle.dropped) =>
            /\ ~HandleScrollRuns
            /\ throttle'.timer = throttle.timer
            /\ throttle'.due = throttle.due
       /\ ThrottleTimerFires => ~HandleScrollRuns]_vars

\* the last event of a burst was dropped, the window has closed since, and
\* handleScroll has not run for it
C30_Witness ==
    /\ throttle.ran
    /\ throttle.dropped
    /\ ~throttle.inThrottle
    /\ throttle.now >= throttle.lastRun + scrollThrottleLimit + TickMs

====
